---- MODULE Spec2Model ----
(***************************************************************************)
(* Model of the SigmaHQ rule validators (sigma/validators/sigmahq):        *)
(* field.py (detection-item validators) and metadata.py (rule validators). *)
(*                                                                         *)
(* Python strings are sequences of one-character strings, so that lower(), *)
(* upper(), strip(), split(" "), indexing and the substring test `in` are  *)
(* computed character by character.  None is the one-element sequence      *)
(* <<"None">>, which is no Python string (its element is not a character). *)
(***************************************************************************)
EXTENDS Integers, Sequences, FiniteSets, TLC

VARIABLES config, rule, detection_item, cast_self, inv_self, result,
          was_missing, runs

vars == <<config, rule, detection_item, cast_self, inv_self, result,
          was_missing, runs>>

----------------------------------------------------------------------------
(* Bounds of the model *)

\* longest value list of a detection item
MaxValues == 3
\* most detection items of a rule
MaxItems == 2
\* most falsepositive entries of a rule
MaxFps == 2
\* most full runs of the check set over one rule
MaxRuns == 2

----------------------------------------------------------------------------
(* Python str operations *)

None == <<"None">>

UpperChars == <<"A","B","C","D","E","F","G","H","I","J","K","L","M",
                "N","O","P","Q","R","S","T","U","V","W","X","Y","Z">>
LowerChars == <<"a","b","c","d","e","f","g","h","i","j","k","l","m",
                "n","o","p","q","r","s","t","u","v","w","x","y","z">>

\* str.lower() on one character
LowerChar(c) ==
    IF \E i \in DOMAIN UpperChars : UpperChars[i] = c
    THEN LowerChars[CHOOSE i \in DOMAIN UpperChars : UpperChars[i] = c]
    ELSE c

\* str.upper() on one character
UpperChar(c) ==
    IF \E i \in DOMAIN LowerChars : LowerChars[i] = c
    THEN UpperChars[CHOOSE i \in DOMAIN LowerChars : LowerChars[i] = c]
    ELSE c

\* s.lower()
Lower(s) == [i \in DOMAIN s |-> LowerChar(s[i])]

\* s.upper()
Upper(s) == [i \in DOMAIN s |-> UpperChar(s[i])]

\* sub in s  (substring test of two str)
Contains(sub, s) ==
    \E k \in 0..(Len(s) - Len(sub)) :
        \A i \in 1..Len(sub) : s[k + i] = sub[i]

\* x in lst  (membership in a list)
InList(x, lst) == \E i \in DOMAIN lst : lst[i] = x

Whitespace == {" ", "\t"}

\* s.strip()
Strip(s) ==
    LET keep == {i \in DOMAIN s : s[i] \notin Whitespace}
    IN  IF keep = {} THEN <<>>
        ELSE LET lo == CHOOSE i \in keep : \A j \in keep : i <= j
                 hi == CHOOSE i \in keep : \A j \in keep : j <= i
             IN  SubSeq(s, lo, hi)

\* s.split(" "): the pieces between single spaces, empty pieces included
RECURSIVE SplitFrom(_, _, _)
SplitFrom(s, i, cur) ==
    IF i > Len(s) THEN <<cur>>
    ELSE IF s[i] = " " THEN <<cur>> \o SplitFrom(s, i + 1, <<>>)
    ELSE SplitFrom(s, i + 1, Append(cur, s[i]))

Split(s) == SplitFrom(s, 1, <<>>)

----------------------------------------------------------------------------
(* SigmaString values: a sequence of characters and special parts *)

WILDCARD_MULTI == "WILDCARD_MULTI"

\* str(v): the special part is written as its wildcard character
Str(v) == [i \in DOMAIN v |-> IF v[i] = WILDCARD_MULTI THEN "*" ELSE v[i]]

----------------------------------------------------------------------------
(* Strings used as inputs *)

s_Foo == <<"F","o","o">>
s_foo == <<"f","o","o">>
s_FooWild == <<"F","o","o",WILDCARD_MULTI>>
s_Autorite == <<"N","T"," ","A","U","T","O","R","I","T","E","\\","T","o","u","t"," ","l","e"," ","m","o","n","d","e">>
s_Authority == <<"N","T"," ","A","U","T","H","O","R","I","T","Y","\\","E","v","e","r","y","o","n","e">>

f_TargetUserName == <<"T","a","r","g","e","t","U","s","e","r","N","a","m","e">>
f_Image == <<"I","m","a","g","e">>
f_image == <<"i","m","a","g","e">>
f_UserName == <<"U","s","e","r"," ","N","a","m","e">>
f_CommandLine == <<"C","o","m","m","a","n","d","L","i","n","e">>
f_TargetUsername == <<"T","a","r","g","e","t","U","s","e","r","n","a","m","e">>

AUTORI == <<"A","U","T","O","R","I">>
AUTHORI == <<"A","U","T","H","O","R","I">>
user == <<"u","s","e","r">>

----------------------------------------------------------------------------
(* Modifier classes imported by field.py *)

SigmaAllModifier == "SigmaAllModifier"
SigmaBase64Modifier == "SigmaBase64Modifier"
SigmaBase64OffsetModifier == "SigmaBase64OffsetModifier"
SigmaRegularExpressionDotAllFlagModifier == "SigmaRegularExpressionDotAllFlagModifier"
SigmaRegularExpressionFlagModifier == "SigmaRegularExpressionFlagModifier"
SigmaRegularExpressionIgnoreCaseFlagModifier == "SigmaRegularExpressionIgnoreCaseFlagModifier"
SigmaRegularExpressionModifier == "SigmaRegularExpressionModifier"
SigmaRegularExpressionMultilineFlagModifier == "SigmaRegularExpressionMultilineFlagModifier"
SigmaCaseSensitiveModifier == "SigmaCaseSensitiveModifier"
SigmaContainsModifier == "SigmaContainsModifier"

----------------------------------------------------------------------------
(* Issues and results *)

SigmahqSpaceFieldNameIssue(field) ==
    [type |-> "SigmahqSpaceFieldNameIssue", field |-> field]

SigmahqFieldnameCastIssue(field) ==
    [type |-> "SigmahqFieldnameCastIssue", field |-> field]

SigmahqInvalidFieldnameIssue(field) ==
    [type |-> "SigmahqInvalidFieldnameIssue", field |-> field]

SigmahqInvalidAllModifierIssue(field) ==
    [type |-> "SigmahqInvalidAllModifierIssue", field |-> field]

SigmahqFieldDuplicateValueIssue(field, value) ==
    [type |-> "SigmahqFieldDuplicateValueIssue", field |-> field, value |-> value]

SigmahqFieldUserIssue(field, usr) ==
    [type |-> "SigmahqFieldUserIssue", field |-> field, user |-> usr]

\* what a call returned: its issue list, or the exception it raised
Returned(validator, issues) ==
    [validator |-> validator, issues |-> issues, raised |-> ""]

Raised(validator, exc) ==
    [validator |-> validator, issues |-> <<>>, raised |-> exc]

NoResult == Returned("", <<>>)

----------------------------------------------------------------------------
(* config = ConfigHQ(): the convention catalog *)

LogSource(category, product, service) ==
    [category |-> category, product |-> product, service |-> service]

ls_process_creation == LogSource("process_creation", "windows", "None")
ls_security == LogSource("None", "windows", "security")
\* share components with the catalog keys without being equal to one
ls_windows == LogSource("None", "windows", "None")
ls_process_linux == LogSource("process_creation", "linux", "None")

\* sigmahq_logsource_unicast: the catalog's field names, lowercased
Unicast(cast) == [ls \in DOMAIN cast |-> {Lower(f) : f \in cast[ls]}]

ConfigHQ(cast, banned, typo, link) ==
    [sigmahq_logsource_cast |-> cast,
     sigmahq_logsource_unicast |-> Unicast(cast),
     sigmahq_fp_banned_word |-> banned,
     sigmahq_fp_typo_word |-> typo,
     sigmahq_link_in_description |-> link]

\* self.fields / self.unifields of a validator instance
Unset == [fields |-> {None}, unifields |-> {None}, set |-> FALSE]

SelfOf(cfg, ls) ==
    [fields |-> cfg.sigmahq_logsource_cast[ls],
     unifields |-> cfg.sigmahq_logsource_unicast[ls],
     set |-> TRUE]

----------------------------------------------------------------------------
(* field.py: the detection-item validators *)

Item(field, modifiers, value) ==
    [field |-> field, modifiers |-> modifiers, value |-> value]

\* SigmahqSpaceFieldNameValidator.validate_detection_item
SigmahqSpaceFieldNameValidator_validate_detection_item(item) ==
    IF item.field # None /\ item.field # <<>> /\ Contains(<<" ">>, item.field)
    THEN Returned("SigmahqSpaceFieldNameValidator",
                  <<SigmahqSpaceFieldNameIssue(item.field)>>)
    ELSE Returned("SigmahqSpaceFieldNameValidator", <<>>)

\* the cast check without its `field is not None` test: None.lower() raises
Mutant_Cast_NoNoneTest(self, item) ==
    IF item.field = None
    THEN Raised("SigmahqFieldnameCastValidator", "AttributeError")
    ELSE IF Lower(item.field) \in self.unifields /\ item.field \notin self.fields
    THEN Returned("SigmahqFieldnameCastValidator",
                  <<SigmahqFieldnameCastIssue(item.field)>>)
    ELSE Returned("SigmahqFieldnameCastValidator", <<>>)

\* SigmahqFieldnameCastValidator.validate_detection_item
SigmahqFieldnameCastValidator_validate_detection_item(self, item) ==
    IF item.field = None
    THEN Returned("SigmahqFieldnameCastValidator", <<>>)
    ELSE IF ~self.set
    THEN Raised("SigmahqFieldnameCastValidator", "AttributeError")
    ELSE IF Lower(item.field) \in self.unifields /\ item.field \notin self.fields
    THEN Returned("SigmahqFieldnameCastValidator",
                  <<SigmahqFieldnameCastIssue(item.field)>>)
    ELSE Returned("SigmahqFieldnameCastValidator", <<>>)

\* SigmahqInvalidFieldnameValidator.validate_detection_item
SigmahqInvalidFieldnameValidator_validate_detection_item(self, item) ==
    IF item.field = None
    THEN Returned("SigmahqInvalidFieldnameValidator", <<>>)
    ELSE IF ~self.set
    THEN Raised("SigmahqInvalidFieldnameValidator", "AttributeError")
    ELSE IF Lower(item.field) \notin self.unifields
    THEN Returned("SigmahqInvalidFieldnameValidator",
                  <<SigmahqInvalidFieldnameIssue(item.field)>>)
    ELSE Returned("SigmahqInvalidFieldnameValidator", <<>>)

\* the all-modifier check with `<= 2` written for `< 2`
Mutant_AllModifier_OffByOne(item) ==
    IF InList(SigmaAllModifier, item.modifiers) /\ Len(item.value) <= 2
    THEN Returned("SigmahqInvalidAllModifierValidator",
                  <<SigmahqInvalidAllModifierIssue(item.field)>>)
    ELSE Returned("SigmahqInvalidAllModifierValidator", <<>>)

\* SigmahqInvalidAllModifierValidator.validate_detection_item (first class body)
SigmahqInvalidAllModifierValidator_validate_detection_item(item) ==
    IF InList(SigmaAllModifier, item.modifiers) /\ Len(item.value) < 2
    THEN Returned("SigmahqInvalidAllModifierValidator",
                  <<SigmahqInvalidAllModifierIssue(item.field)>>)
    ELSE Returned("SigmahqInvalidAllModifierValidator", <<>>)

\* SigmahqInvalidAllModifierValidator.validate_detection_item (second class body)
SigmahqInvalidAllModifierValidator_validate_detection_item_2(item) ==
    IF InList(SigmaAllModifier, item.modifiers) /\ Len(item.value) < 2
    THEN Returned("SigmahqInvalidAllModifierValidator_2",
                  <<SigmahqInvalidAllModifierIssue(item.field)>>)
    ELSE Returned("SigmahqInvalidAllModifierValidator_2", <<>>)

\* the modifiers under which the duplicate check compares the values as they are
CaseSensitiveModifiers ==
    {SigmaBase64Modifier, SigmaBase64OffsetModifier,
     SigmaRegularExpressionDotAllFlagModifier, SigmaRegularExpressionFlagModifier,
     SigmaRegularExpressionIgnoreCaseFlagModifier, SigmaRegularExpressionModifier,
     SigmaRegularExpressionMultilineFlagModifier, SigmaCaseSensitiveModifier}

\* for v in detection_item.value: if v in value_see ... else value_see.append(v)
RECURSIVE DuplicateScanRaw(_, _, _, _)
DuplicateScanRaw(field, value, i, value_see) ==
    IF i > Len(value) THEN <<>>
    ELSE IF InList(value[i], value_see)
    THEN <<SigmahqFieldDuplicateValueIssue(field, Str(value[i]))>>
    ELSE DuplicateScanRaw(field, value, i + 1, Append(value_see, value[i]))

\* for v in detection_item.value: if str(v).lower() in value_see ... else append
RECURSIVE DuplicateScanLower(_, _, _, _)
DuplicateScanLower(field, value, i, value_see) ==
    IF i > Len(value) THEN <<>>
    ELSE IF InList(Lower(Str(value[i])), value_see)
    THEN <<SigmahqFieldDuplicateValueIssue(field, Str(value[i]))>>
    ELSE DuplicateScanLower(field, value, i + 1,
                            Append(value_see, Lower(Str(value[i]))))

\* the duplicate check without its special case: always case-insensitive
Mutant_Duplicate_AlwaysLower(item) ==
    Returned("SigmahqFieldDuplicateValueValidator",
             DuplicateScanLower(item.field, item.value, 1, <<>>))

\* SigmahqFieldDuplicateValueValidator.validate_detection_item
SigmahqFieldDuplicateValueValidator_validate_detection_item(item) ==
    IF \E m \in CaseSensitiveModifiers : InList(m, item.modifiers)
    THEN Returned("SigmahqFieldDuplicateValueValidator",
                  DuplicateScanRaw(item.field, item.value, 1, <<>>))
    ELSE Returned("SigmahqFieldDuplicateValueValidator",
                  DuplicateScanLower(item.field, item.value, 1, <<>>))

\* the user check looking for "AUTORI" only
Mutant_FieldUser_OnlyAutori(item) ==
    IF /\ item.field # None /\ item.field # <<>>
       /\ Contains(user, Lower(item.field))
       /\ Len(item.value) = 1
       /\ Contains(AUTORI, Str(item.value[1]))
    THEN Returned("SigmahqFieldUserValidator",
                  <<SigmahqFieldUserIssue(item.field, Str(item.value[1]))>>)
    ELSE Returned("SigmahqFieldUserValidator", <<>>)

\* SigmahqFieldUserValidator.validate_detection_item
SigmahqFieldUserValidator_validate_detection_item(item) ==
    IF /\ item.field # None /\ item.field # <<>>
       /\ Contains(user, Lower(item.field))
       /\ Len(item.value) = 1
    THEN LET usr == Str(item.value[1])
         IN  IF Contains(AUTORI, usr) \/ Contains(AUTHORI, usr)
             THEN Returned("SigmahqFieldUserValidator",
                           <<SigmahqFieldUserIssue(item.field, usr)>>)
             ELSE Returned("SigmahqFieldUserValidator", <<>>)
    ELSE Returned("SigmahqFieldUserValidator", <<>>)

----------------------------------------------------------------------------
(* field.py: validate(rule) of the validators that look the logsource up *)

\* the concatenation of a list of lists
RECURSIVE Concat(_)
Concat(lists) ==
    IF lists = <<>> THEN <<>> ELSE Head(lists) \o Concat(Tail(lists))

\* SigmaDetectionItemValidator.validate: validate_detection_item on every
\* detection item in order; the first exception ends the call
Traverse(validator, results) ==
    IF \E i \in DOMAIN results : results[i].raised # ""
    THEN Raised(validator,
                results[CHOOSE i \in DOMAIN results :
                            /\ results[i].raised # ""
                            /\ \A j \in 1..(i - 1) : results[j].raised = ""].raised)
    ELSE Returned(validator, Concat([i \in DOMAIN results |-> results[i].issues]))

\* validate() that resolves the logsource by its product alone
Mutant_Cast_ProductOnly(self, r, cfg) ==
    LET keys == {k \in DOMAIN cfg.sigmahq_logsource_cast :
                     k.product = r.logsource.product}
    IN  IF keys # {}
        THEN LET key == IF r.logsource \in keys THEN r.logsource
                        ELSE CHOOSE k \in keys : TRUE
                 new == SelfOf(cfg, key)
             IN  [self |-> new,
                  result |-> Traverse("SigmahqFieldnameCastValidator",
                      [i \in DOMAIN r.detections |->
                          SigmahqFieldnameCastValidator_validate_detection_item(
                              new, r.detections[i])])]
        ELSE [self |-> self,
              result |-> Returned("SigmahqFieldnameCastValidator", <<>>)]

\* validate() that sets self.fields / self.unifields after the traversal
Mutant_Cast_StaleFields(self, r, cfg) ==
    IF r.logsource \in DOMAIN cfg.sigmahq_logsource_cast
    THEN [self |-> SelfOf(cfg, r.logsource),
          result |-> Traverse("SigmahqFieldnameCastValidator",
              [i \in DOMAIN r.detections |->
                  SigmahqFieldnameCastValidator_validate_detection_item(
                      self, r.detections[i])])]
    ELSE [self |-> self,
          result |-> Returned("SigmahqFieldnameCastValidator", <<>>)]

\* SigmahqFieldnameCastValidator.validate: the instance afterwards and the result
SigmahqFieldnameCastValidator_validate(self, r, cfg) ==
    IF r.logsource \in DOMAIN cfg.sigmahq_logsource_cast
    THEN LET new == SelfOf(cfg, r.logsource)
         IN  [self |-> new,
              result |-> Traverse("SigmahqFieldnameCastValidator",
                  [i \in DOMAIN r.detections |->
                      SigmahqFieldnameCastValidator_validate_detection_item(
                          new, r.detections[i])])]
    ELSE [self |-> self,
          result |-> Returned("SigmahqFieldnameCastValidator", <<>>)]

\* validate() that traverses with the fields already on the instance
Mutant_Invalid_StaleFields(self, r, cfg) ==
    IF r.logsource \in DOMAIN cfg.sigmahq_logsource_cast
    THEN [self |-> SelfOf(cfg, r.logsource),
          result |-> Traverse("SigmahqInvalidFieldnameValidator",
              [i \in DOMAIN r.detections |->
                  SigmahqInvalidFieldnameValidator_validate_detection_item(
                      self, r.detections[i])])]
    ELSE [self |-> self,
          result |-> Returned("SigmahqInvalidFieldnameValidator", <<>>)]

\* SigmahqInvalidFieldnameValidator.validate: the instance afterwards and the result
SigmahqInvalidFieldnameValidator_validate(self, r, cfg) ==
    IF r.logsource \in DOMAIN cfg.sigmahq_logsource_cast
    THEN LET new == SelfOf(cfg, r.logsource)
         IN  [self |-> new,
              result |-> Traverse("SigmahqInvalidFieldnameValidator",
                  [i \in DOMAIN r.detections |->
                      SigmahqInvalidFieldnameValidator_validate_detection_item(
                          new, r.detections[i])])]
    ELSE [self |-> self,
          result |-> Returned("SigmahqInvalidFieldnameValidator", <<>>)]

\* validate(rule) of a validator that only overrides validate_detection_item
SigmahqSpaceFieldNameValidator_validate(r) ==
    Traverse("SigmahqSpaceFieldNameValidator",
        [i \in DOMAIN r.detections |->
            SigmahqSpaceFieldNameValidator_validate_detection_item(r.detections[i])])

SigmahqInvalidAllModifierValidator_validate(r) ==
    Traverse("SigmahqInvalidAllModifierValidator_2",
        [i \in DOMAIN r.detections |->
            SigmahqInvalidAllModifierValidator_validate_detection_item_2(r.detections[i])])

SigmahqFieldDuplicateValueValidator_validate(r) ==
    Traverse("SigmahqFieldDuplicateValueValidator",
        [i \in DOMAIN r.detections |->
            SigmahqFieldDuplicateValueValidator_validate_detection_item(r.detections[i])])

SigmahqFieldUserValidator_validate(r) ==
    Traverse("SigmahqFieldUserValidator",
        [i \in DOMAIN r.detections |->
            SigmahqFieldUserValidator_validate_detection_item(r.detections[i])])

----------------------------------------------------------------------------
(* metadata.py: the rule validators *)

\* len(rule.description) < 16
MinDescriptionLength == 16

Issue(type) == [type |-> type]

WordIssue(type, word) == [type |-> type, word |-> word]

SigmahqUnknownFieldIssue(fieldname) ==
    [type |-> "SigmahqUnknownFieldIssue", fieldname |-> fieldname]

\* SigmahqStatusExistenceValidator.validate
SigmahqStatusExistenceValidator_validate(r) ==
    IF r.status = "None"
    THEN Returned("SigmahqStatusExistenceValidator",
                  <<Issue("SigmahqStatusExistenceIssue")>>)
    ELSE Returned("SigmahqStatusExistenceValidator", <<>>)

\* SigmahqStatusValidator.validate
SigmahqStatusValidator_validate(r) ==
    IF r.status # "None" /\ r.status \in {"DEPRECATED", "UNSUPPORTED"}
    THEN Returned("SigmahqStatusValidator", <<Issue("SigmahqStatusIssue")>>)
    ELSE Returned("SigmahqStatusValidator", <<>>)

\* SigmahqDateExistenceValidator.validate
SigmahqDateExistenceValidator_validate(r) ==
    IF r.date = "None"
    THEN Returned("SigmahqDateExistenceValidator",
                  <<Issue("SigmahqDateExistenceIssue")>>)
    ELSE Returned("SigmahqDateExistenceValidator", <<>>)

\* SigmahqDescriptionExistenceValidator.validate
SigmahqDescriptionExistenceValidator_validate(r) ==
    IF r.description = None
    THEN Returned("SigmahqDescriptionExistenceValidator",
                  <<Issue("SigmahqDescriptionExistenceIssue")>>)
    ELSE Returned("SigmahqDescriptionExistenceValidator", <<>>)

\* the length check with `<= 16` written for `< 16`
Mutant_DescriptionLength_OffByOne(r) ==
    IF r.description # None /\ Len(r.description) <= MinDescriptionLength
    THEN Returned("SigmahqDescriptionLengthValidator",
                  <<Issue("SigmahqDescriptionLengthIssue")>>)
    ELSE Returned("SigmahqDescriptionLengthValidator", <<>>)

\* SigmahqDescriptionLengthValidator.validate
SigmahqDescriptionLengthValidator_validate(r) ==
    IF r.description # None /\ Len(r.description) < MinDescriptionLength
    THEN Returned("SigmahqDescriptionLengthValidator",
                  <<Issue("SigmahqDescriptionLengthIssue")>>)
    ELSE Returned("SigmahqDescriptionLengthValidator", <<>>)

\* SigmahqLevelExistenceValidator.validate
SigmahqLevelExistenceValidator_validate(r) ==
    IF r.level = "None"
    THEN Returned("SigmahqLevelExistenceValidator",
                  <<Issue("SigmahqLevelExistenceIssue")>>)
    ELSE Returned("SigmahqLevelExistenceValidator", <<>>)

\* SigmahqFalsepositivesCapitalValidator.validate: fp[0] of an empty entry
\* raises IndexError, which ends the call
SigmahqFalsepositivesCapitalValidator_validate(r) ==
    LET fps == r.falsepositives
    IN  IF \E i \in DOMAIN fps : fps[i] = <<>>
        THEN Raised("SigmahqFalsepositivesCapitalValidator", "IndexError")
        ELSE Returned("SigmahqFalsepositivesCapitalValidator",
                 Concat([i \in DOMAIN fps |->
                     IF UpperChar(fps[i][1]) # fps[i][1]
                     THEN <<WordIssue("SigmahqFalsepositivesCapitalIssue",
                                      Split(fps[i])[1])>>
                     ELSE <<>>]))

\* SigmahqFalsepositivesBannedWordValidator.validate
SigmahqFalsepositivesBannedWordValidator_validate(r, cfg) ==
    LET fps == r.falsepositives
        words == cfg.sigmahq_fp_banned_word
    IN  Returned("SigmahqFalsepositivesBannedWordValidator",
            Concat([i \in DOMAIN fps |->
                LET toks == Split(fps[i])
                IN  Concat([j \in DOMAIN toks |->
                        Concat([k \in DOMAIN words |->
                            IF Strip(Lower(toks[j])) = words[k]
                            THEN <<WordIssue("SigmahqFalsepositivesBannedWordIssue",
                                             toks[j])>>
                            ELSE <<>>])])]))

\* SigmahqFalsepositivesTypoWordValidator.validate
SigmahqFalsepositivesTypoWordValidator_validate(r, cfg) ==
    LET fps == r.falsepositives
        words == cfg.sigmahq_fp_typo_word
    IN  Returned("SigmahqFalsepositivesTypoWordValidator",
            Concat([i \in DOMAIN fps |->
                LET toks == Split(fps[i])
                IN  Concat([j \in DOMAIN toks |->
                        Concat([k \in DOMAIN words |->
                            IF Contains(Strip(Lower(toks[j])), words[k])
                            THEN <<WordIssue("SigmahqFalsepositivesTypoWordIssue",
                                             toks[j])>>
                            ELSE <<>>])])]))

\* SigmahqLinkInDescriptionValidator.validate
SigmahqLinkInDescriptionValidator_validate(r, cfg) ==
    IF /\ r.description # None /\ r.description # <<>>
       /\ r.references = <<>>
       /\ \E k \in DOMAIN cfg.sigmahq_link_in_description :
              Contains(cfg.sigmahq_link_in_description[k], Lower(r.description))
    THEN Returned("SigmahqLinkInDescriptionValidator",
                  <<Issue("SigmahqLinkInDescriptionIssue")>>)
    ELSE Returned("SigmahqLinkInDescriptionValidator", <<>>)

\* SigmahqUnknownFieldValidator.validate
SigmahqUnknownFieldValidator_validate(r) ==
    IF Len(r.custom_attributes) > 0
    THEN Returned("SigmahqUnknownFieldValidator",
                  <<SigmahqUnknownFieldIssue(r.custom_attributes)>>)
    ELSE Returned("SigmahqUnknownFieldValidator", <<>>)

----------------------------------------------------------------------------
(* Inputs: catalogs, detection items, rules *)

w_none == <<"n","o","n","e">>
w_pentest == <<"p","e","n","t","e","s","t">>
t_unkown == <<"u","n","k","o","w","n">>
t_ligitimate == <<"l","i","g","i","t","i","m","a","t","e">>
t_legitim == <<"l","e","g","i","t","i","m"," ">>
t_legitimeate == <<"l","e","g","i","t","i","m","e","a","t","e">>
l_http == <<"h","t","t","p",":","/","/">>
l_https == <<"h","t","t","p","s",":","/","/">>

ConfigA ==
    ConfigHQ((ls_process_creation :> {f_Image, f_CommandLine})
                 @@ (ls_security :> {f_TargetUserName, f_Image}),
             <<w_none, w_pentest>>,
             <<t_unkown, t_ligitimate, t_legitim, t_legitimeate>>,
             <<l_http, l_https>>)

ConfigB ==
    ConfigHQ((ls_security :> {f_TargetUsername, f_CommandLine}),
             <<w_none>>,
             <<t_unkown>>,
             <<l_https>>)

ConfigPool == {ConfigA, ConfigB}

ValuePool == {s_Foo, s_foo, s_FooWild, s_Autorite, s_Authority}

ValueLists == UNION {[1..n -> ValuePool] : n \in 0..MaxValues}

ItemFields == {None, f_TargetUserName, f_UserName}

ItemModifiers ==
    {<<>>, <<SigmaContainsModifier, SigmaAllModifier>>}
    \cup {<<m>> : m \in CaseSensitiveModifiers}

Items == {Item(f, m, v) : f \in ItemFields, m \in ItemModifiers, v \in ValueLists}

Rule(st, dt, de, lv, fps, refs, ca, ls, det) ==
    [status |-> st, date |-> dt, description |-> de, level |-> lv,
     falsepositives |-> fps, references |-> refs, custom_attributes |-> ca,
     logsource |-> ls, detections |-> det]

NoRule == Rule("None", "None", None, "None", <<>>, <<>>, <<>>, ls_windows, <<>>)

NoItem == Item(None, <<>>, <<>>)

----------------------------------------------------------------------------
(* SpecItem: the detection-item validators on one detection item.  The two  *)
(* catalog validators are called as validate() calls them: with the fields  *)
(* of a catalog entry on the instance.                                      *)

InitItem ==
    /\ config \in ConfigPool
    /\ detection_item \in Items
    /\ cast_self = SelfOf(config, ls_security)
    /\ inv_self = SelfOf(config, ls_security)
    /\ rule = NoRule
    /\ result = NoResult
    /\ was_missing = FALSE
    /\ runs = <<>>

SpaceFieldName ==
    /\ result' = SigmahqSpaceFieldNameValidator_validate_detection_item(
                     detection_item)
    /\ UNCHANGED <<config, rule, detection_item, cast_self, inv_self,
                   was_missing, runs>>

FieldnameCast ==
    /\ result' = SigmahqFieldnameCastValidator_validate_detection_item(
                     cast_self, detection_item)
    /\ UNCHANGED <<config, rule, detection_item, cast_self, inv_self,
                   was_missing, runs>>

InvalidFieldname ==
    /\ result' = SigmahqInvalidFieldnameValidator_validate_detection_item(
                     inv_self, detection_item)
    /\ UNCHANGED <<config, rule, detection_item, cast_self, inv_self,
                   was_missing, runs>>

InvalidAllModifier ==
    /\ result' = SigmahqInvalidAllModifierValidator_validate_detection_item(
                     detection_item)
    /\ UNCHANGED <<config, rule, detection_item, cast_self, inv_self,
                   was_missing, runs>>

InvalidAllModifier2 ==
    /\ result' = SigmahqInvalidAllModifierValidator_validate_detection_item_2(
                     detection_item)
    /\ UNCHANGED <<config, rule, detection_item, cast_self, inv_self,
                   was_missing, runs>>

FieldDuplicateValue ==
    /\ result' = SigmahqFieldDuplicateValueValidator_validate_detection_item(
                     detection_item)
    /\ UNCHANGED <<config, rule, detection_item, cast_self, inv_self,
                   was_missing, runs>>

FieldUser ==
    /\ result' = SigmahqFieldUserValidator_validate_detection_item(
                     detection_item)
    /\ UNCHANGED <<config, rule, detection_item, cast_self, inv_self,
                   was_missing, runs>>

NextItem ==
    \/ SpaceFieldName
    \/ FieldnameCast
    \/ InvalidFieldname
    \/ InvalidAllModifier
    \/ InvalidAllModifier2
    \/ FieldDuplicateValue
    \/ FieldUser

SpecItem == InitItem /\ [][NextItem]_vars

----------------------------------------------------------------------------
(* Properties of the detection-item validators (SpecItem) *)

IsCaseSensitive(item) ==
    \E m \in CaseSensitiveModifiers : \E i \in DOMAIN item.modifiers :
        item.modifiers[i] = m

\* positions of detection_item.value that repeat an earlier position
Repeats(item) ==
    {j \in DOMAIN item.value : \E i \in 1..(j - 1) :
        IF IsCaseSensitive(item)
        THEN item.value[i] = item.value[j]
        ELSE Lower(Str(item.value[i])) = Lower(Str(item.value[j]))}

\* C1: the duplicate-value check compares case-insensitively unless a
\* case-sensitive modifier is present, then by the values as they are; it
\* returns at most one issue, carrying the first value that repeats an
\* earlier one: [Foo, foo] fires without such a modifier, and with one
\* [Foo, foo] does not fire but [Foo, Foo] does.
C1_DuplicateValue ==
    result.validator = "SigmahqFieldDuplicateValueValidator" =>
        LET item == detection_item
            rep == Repeats(item)
        IN  /\ result.raised = ""
            /\ Len(result.issues) <= 1
            /\ rep = {} => result.issues = <<>>
            /\ rep # {} =>
                 LET first == CHOOSE j \in rep : \A k \in rep : j <= k
                 IN  result.issues = <<SigmahqFieldDuplicateValueIssue(
                                          item.field, Str(item.value[first]))>>
            /\ (item.value = <<s_Foo, s_foo>> /\ ~IsCaseSensitive(item))
                 => Len(result.issues) = 1
            /\ (item.value = <<s_Foo, s_foo>> /\ IsCaseSensitive(item))
                 => result.issues = <<>>
            /\ item.value = <<s_Foo, s_Foo>> => Len(result.issues) = 1

C1_Witness ==
    /\ result.validator = "SigmahqFieldDuplicateValueValidator"
    /\ detection_item.modifiers = <<SigmaCaseSensitiveModifier>>
    /\ detection_item.value = <<s_Foo, s_foo, s_Foo>>
    /\ result.issues = <<SigmahqFieldDuplicateValueIssue(
                            detection_item.field, s_Foo)>>

IsUserItem(item) ==
    /\ item.field # None
    /\ Contains(user, Lower(item.field))
    /\ Len(item.value) = 1

\* C2 as stated: on a user field with one value the localization check fires
\* for "NT AUTORITE\Tout le monde" and does not fire for "NT AUTHORITY\Everyone".
C2_AsStated ==
    (result.validator = "SigmahqFieldUserValidator" /\ IsUserItem(detection_item)) =>
        /\ detection_item.value[1] = s_Autorite => result.issues # <<>>
        /\ detection_item.value[1] = s_Authority => result.issues = <<>>

\* C2 as amended: on a user field with one value the localization check fires
\* for "NT AUTORITE\Tout le monde" and for "NT AUTHORITY\Everyone" alike (each
\* contains AUTORI or AUTHORI), carrying the value, and does not fire for a
\* value that contains neither.
C2_UserLocalization ==
    (result.validator = "SigmahqFieldUserValidator" /\ IsUserItem(detection_item)) =>
        LET v == detection_item.value[1]
        IN  /\ result.raised = ""
            /\ v \in {s_Autorite, s_Authority} =>
                 result.issues = <<SigmahqFieldUserIssue(detection_item.field, Str(v))>>
            /\ v \in {s_Foo, s_foo, s_FooWild} => result.issues = <<>>
            /\ result.issues # <<>> <=>
                 (Contains(AUTORI, Str(v)) \/ Contains(AUTHORI, Str(v)))

C2_Witness ==
    /\ result.validator = "SigmahqFieldUserValidator"
    /\ detection_item.field = f_TargetUserName
    /\ detection_item.value = <<s_Authority>>
    /\ result.issues = <<SigmahqFieldUserIssue(f_TargetUserName, s_Authority)>>

\* C6: the all-modifier check returns exactly one issue when the all modifier
\* is among the modifiers and there are fewer than 2 values, and none when
\* there are two or more values or the modifier is absent; both class bodies
\* behave so.
C6_InvalidAllModifier ==
    result.validator \in {"SigmahqInvalidAllModifierValidator",
                          "SigmahqInvalidAllModifierValidator_2"} =>
        LET item == detection_item
            hasAll == \E i \in DOMAIN item.modifiers :
                          item.modifiers[i] = SigmaAllModifier
        IN  /\ result.raised = ""
            /\ (hasAll /\ Len(item.value) \in {0, 1}) =>
                 result.issues = <<SigmahqInvalidAllModifierIssue(item.field)>>
            /\ (~hasAll \/ Len(item.value) >= 2) => result.issues = <<>>

C6_Witness ==
    /\ result.validator = "SigmahqInvalidAllModifierValidator_2"
    /\ detection_item.modifiers = <<SigmaContainsModifier, SigmaAllModifier>>
    /\ Len(detection_item.value) = 1
    /\ Len(result.issues) = 1

\* C9: on a detection item without a field name the space, cast, invalid-name
\* and user checks return an empty list and raise nothing, whatever the
\* values, modifiers and catalog.
C9_KeywordItem ==
    (/\ detection_item.field = None
     /\ result.validator \in {"SigmahqSpaceFieldNameValidator",
                              "SigmahqFieldnameCastValidator",
                              "SigmahqInvalidFieldnameValidator",
                              "SigmahqFieldUserValidator"}) =>
        /\ result.raised = ""
        /\ result.issues = <<>>

C9_Witness ==
    /\ detection_item.field = None
    /\ detection_item.value = <<s_Autorite>>
    /\ result = Returned("SigmahqFieldnameCastValidator", <<>>)

----------------------------------------------------------------------------
(* SpecRule: one instance of each catalog validator, validating one rule    *)
(* after another; the instance keeps self.fields / self.unifields between   *)
(* the calls.                                                               *)

LogSources == {ls_process_creation, ls_security, ls_windows, ls_process_linux}

RuleItems ==
    {Item(f, <<>>, <<s_Foo>>) :
        f \in {None, f_Image, f_image, f_TargetUserName}}

Detections == UNION {[1..n -> RuleItems] : n \in 0..MaxItems}

RulesOfLogsource ==
    {Rule("None", "None", None, "None", <<>>, <<>>, <<>>, ls, d) :
        ls \in LogSources, d \in Detections}

InitRule ==
    /\ config \in ConfigPool
    /\ rule \in RulesOfLogsource
    /\ cast_self = Unset
    /\ inv_self = Unset
    /\ detection_item = NoItem
    /\ result = NoResult
    /\ was_missing = FALSE
    /\ runs = <<>>

\* the caller goes on to another rule
NextRule ==
    /\ \E r \in RulesOfLogsource : rule' = r
    /\ result' = NoResult
    /\ UNCHANGED <<config, detection_item, cast_self, inv_self, was_missing, runs>>

FieldnameCastValidate ==
    LET call == SigmahqFieldnameCastValidator_validate(cast_self, rule, config)
    IN  /\ cast_self' = call.self
        /\ result' = call.result
        /\ UNCHANGED <<config, rule, detection_item, inv_self, was_missing, runs>>

InvalidFieldnameValidate ==
    LET call == SigmahqInvalidFieldnameValidator_validate(inv_self, rule, config)
    IN  /\ inv_self' = call.self
        /\ result' = call.result
        /\ UNCHANGED <<config, rule, detection_item, cast_self, was_missing, runs>>

NextOfRule ==
    \/ NextRule
    \/ FieldnameCastValidate
    \/ InvalidFieldnameValidate

SpecRule == InitRule /\ [][NextOfRule]_vars

----------------------------------------------------------------------------
(* Properties of the catalog validators (SpecRule) *)

KnownLogsource == rule.logsource \in DOMAIN config.sigmahq_logsource_cast

\* C3: for a rule whose logsource triple is no key of the catalog the cast
\* check and the invalid-name check both return an empty list, whatever its
\* detection items; a logsource resolves only to the catalog key equal to it,
\* in both validators.
C3_UnknownLogsource ==
    /\ (/\ result.validator \in {"SigmahqFieldnameCastValidator",
                                 "SigmahqInvalidFieldnameValidator"}
        /\ ~KnownLogsource)
         => (result.raised = "" /\ result.issues = <<>>)
    /\ (result.validator = "SigmahqFieldnameCastValidator" /\ KnownLogsource)
         => cast_self.fields = config.sigmahq_logsource_cast[rule.logsource]
    /\ (result.validator = "SigmahqInvalidFieldnameValidator" /\ KnownLogsource)
         => inv_self.fields = config.sigmahq_logsource_cast[rule.logsource]

\* an unknown logsource is validated on an instance that holds the fields of
\* an earlier rule, and the rule has a field that would not pass them
C3_Witness ==
    /\ rule.logsource = ls_windows
    /\ cast_self.set
    /\ \E i \in DOMAIN rule.detections : rule.detections[i].field = f_image
    /\ result = Returned("SigmahqFieldnameCastValidator", <<>>)

\* the issues of a rule from the rule and the catalog alone
CastIssuesOf(r, cfg) ==
    LET fields == cfg.sigmahq_logsource_cast[r.logsource]
        Bad(item) == /\ item.field # None
                     /\ \E f \in fields : Lower(f) = Lower(item.field)
                     /\ item.field \notin fields
        bad == SelectSeq(r.detections, Bad)
    IN  [i \in DOMAIN bad |-> SigmahqFieldnameCastIssue(bad[i].field)]

InvalidIssuesOf(r, cfg) ==
    LET fields == cfg.sigmahq_logsource_cast[r.logsource]
        Bad(item) == /\ item.field # None
                     /\ ~\E f \in fields : Lower(f) = Lower(item.field)
        bad == SelectSeq(r.detections, Bad)
    IN  [i \in DOMAIN bad |-> SigmahqInvalidFieldnameIssue(bad[i].field)]

\* C10: after any sequence of validate calls on one instance, over rules of
\* known and unknown logsources, the result for a rule is decided by that
\* rule and the catalog alone: the fields consulted are those of the rule's
\* own logsource, never those a previous rule left on the instance.
C10_OwnLogsourceFields ==
    /\ result.validator = "SigmahqFieldnameCastValidator" =>
         /\ result.raised = ""
         /\ result.issues = IF KnownLogsource THEN CastIssuesOf(rule, config)
                            ELSE <<>>
         /\ KnownLogsource => cast_self = SelfOf(config, rule.logsource)
    /\ result.validator = "SigmahqInvalidFieldnameValidator" =>
         /\ result.raised = ""
         /\ result.issues = IF KnownLogsource THEN InvalidIssuesOf(rule, config)
                            ELSE <<>>
         /\ KnownLogsource => inv_self = SelfOf(config, rule.logsource)

\* a known rule is validated, with issues, while the other instance still
\* holds the fields of an earlier rule of another logsource
C10_Witness ==
    /\ KnownLogsource
    /\ result.validator = "SigmahqFieldnameCastValidator"
    /\ result.issues # <<>>
    /\ inv_self.set
    /\ inv_self # SelfOf(config, rule.logsource)

----------------------------------------------------------------------------
(* SpecMeta: the description and falsepositives validators on one rule,     *)
(* whose description the author edits between validations.                  *)

d_short == <<"S","h","o","r","t"," ","t","e","x","t">>
d_15 == <<"E","x","a","c","t","l","y","1","5","c","h","a","r","s","!">>
d_16 == <<"E","x","a","c","t","l","y"," ","1","6"," ","c","h","a","r","s">>
d_link == <<"S","e","e"," ","h","t","t","p","s",":","/","/","x",".","i","o","/","a">>

Descriptions == {None, <<>>, d_short, d_15, d_16, d_link}

fp_Unknown == <<"U","n","k","n","o","w","n">>
fp_none == <<"n","o","n","e">>
fp_NoneIdentified == <<"N","o","n","e"," ","i","d","e","n","t","i","f","i","e","d">>
fp_legitim == <<"l","e","g","i","t","i","m"," ","u","s","e">>
fp_unkownTab == <<"L","e","g","i","t"," ","u","n","k","o","w","n","\t">>
fp_digit == <<"3","r","d"," ","p","a","r","t","y">>
fp_double == <<"A","d","m","i","n"," "," ","t","o","o","l","s">>

FpPool == {<<>>, fp_Unknown, fp_none, fp_NoneIdentified, fp_legitim,
           fp_unkownTab, fp_digit, fp_double}

FpLists == UNION {[1..n -> FpPool] : n \in 0..MaxFps}

InitMeta ==
    /\ config \in ConfigPool
    /\ \E d \in Descriptions, fps \in FpLists :
          rule = Rule("None", "None", d, "None", fps, <<>>, <<>>, ls_windows, <<>>)
    /\ cast_self = Unset
    /\ inv_self = Unset
    /\ detection_item = NoItem
    /\ result = NoResult
    /\ was_missing = FALSE
    /\ runs = <<>>

\* the author sets the description of the rule
SetDescription ==
    /\ \E d \in Descriptions : rule' = [rule EXCEPT !.description = d]
    /\ result' = NoResult
    /\ UNCHANGED <<config, detection_item, cast_self, inv_self, was_missing, runs>>

DescriptionExistence ==
    /\ result' = SigmahqDescriptionExistenceValidator_validate(rule)
    /\ was_missing' = (was_missing \/ result'.issues # <<>>)
    /\ UNCHANGED <<config, rule, detection_item, cast_self, inv_self, runs>>

DescriptionLength ==
    /\ result' = SigmahqDescriptionLengthValidator_validate(rule)
    /\ UNCHANGED <<config, rule, detection_item, cast_self, inv_self,
                   was_missing, runs>>

FalsepositivesCapital ==
    /\ result' = SigmahqFalsepositivesCapitalValidator_validate(rule)
    /\ UNCHANGED <<config, rule, detection_item, cast_self, inv_self,
                   was_missing, runs>>

FalsepositivesBannedWord ==
    /\ result' = SigmahqFalsepositivesBannedWordValidator_validate(rule, config)
    /\ UNCHANGED <<config, rule, detection_item, cast_self, inv_self,
                   was_missing, runs>>

FalsepositivesTypoWord ==
    /\ result' = SigmahqFalsepositivesTypoWordValidator_validate(rule, config)
    /\ UNCHANGED <<config, rule, detection_item, cast_self, inv_self,
                   was_missing, runs>>

NextMeta ==
    \/ SetDescription
    \/ DescriptionExistence
    \/ DescriptionLength
    \/ FalsepositivesCapital
    \/ FalsepositivesBannedWord
    \/ FalsepositivesTypoWord

SpecMeta == InitMeta /\ [][NextMeta]_vars

----------------------------------------------------------------------------
(* Properties of the rule validators (SpecMeta) *)

\* the tokens of the falsepositive entries, in order
TokensOf(fps) == Concat([i \in DOMAIN fps |-> Split(fps[i])])

\* C4: the typo-word check returns exactly one issue per space-separated
\* token whose trimmed lowercase form is a substring of some typo-word entry,
\* carrying the token: as many issues as matching tokens, not as matching
\* pairs of token and entry.
C4_OneIssuePerToken ==
    result.validator = "SigmahqFalsepositivesTypoWordValidator" =>
        LET typos == config.sigmahq_fp_typo_word
            Match(tok) == \E k \in DOMAIN typos :
                              Contains(Strip(Lower(tok)), typos[k])
            hits == SelectSeq(TokensOf(rule.falsepositives), Match)
        IN  /\ result.raised = ""
            /\ result.issues =
                 [i \in DOMAIN hits |->
                     WordIssue("SigmahqFalsepositivesTypoWordIssue", hits[i])]

\* C5: the capital check returns one issue for each falsepositive entry
\* whose first character is not uppercase, carrying the entry's first word,
\* none for the other entries, and raises for no list of strings.
C5_CapitalNeverRaises ==
    result.validator = "SigmahqFalsepositivesCapitalValidator" =>
        LET NotCapital(fp) == fp # <<>> /\ Upper(fp)[1] # fp[1]
            hits == SelectSeq(rule.falsepositives, NotCapital)
        IN  /\ result.raised = ""
            /\ result.issues =
                 [i \in DOMAIN hits |->
                     WordIssue("SigmahqFalsepositivesCapitalIssue",
                               Split(hits[i])[1])]

\* C7: once the missing-description check has fired on a rule, validating it
\* again after its description is set to a string of at least 16 characters
\* yields neither a missing-description nor a description-too-short issue;
\* and on no rule do both checks fire.
C7_DescriptionSet ==
    /\ (/\ was_missing
        /\ rule.description # None
        /\ Len(rule.description) >= MinDescriptionLength
        /\ result.validator \in {"SigmahqDescriptionExistenceValidator",
                                 "SigmahqDescriptionLengthValidator"})
         => (result.raised = "" /\ result.issues = <<>>)
    /\ ~(/\ SigmahqDescriptionExistenceValidator_validate(rule).issues # <<>>
         /\ SigmahqDescriptionLengthValidator_validate(rule).issues # <<>>)
    /\ result.validator = "SigmahqDescriptionLengthValidator" =>
         (result.issues # <<>> => rule.description # None)

C7_Witness ==
    /\ was_missing
    /\ rule.description = d_16
    /\ result = Returned("SigmahqDescriptionLengthValidator", <<>>)

----------------------------------------------------------------------------
(* SpecRun: the full set of checks, run again and again over one rule with  *)
(* the same validator instances and the same catalog.                       *)

\* every validator of field.py and metadata.py in the order of declaration;
\* the instances of the two catalog validators afterwards
RunChecks(cast, inv, r, cfg) ==
    LET c == SigmahqFieldnameCastValidator_validate(cast, r, cfg)
        n == SigmahqInvalidFieldnameValidator_validate(inv, r, cfg)
    IN  [cast_self |-> c.self,
         inv_self |-> n.self,
         out |-> << SigmahqSpaceFieldNameValidator_validate(r),
                    c.result,
                    n.result,
                    SigmahqInvalidAllModifierValidator_validate(r),
                    SigmahqFieldDuplicateValueValidator_validate(r),
                    SigmahqFieldUserValidator_validate(r),
                    SigmahqStatusExistenceValidator_validate(r),
                    SigmahqStatusValidator_validate(r),
                    SigmahqDateExistenceValidator_validate(r),
                    SigmahqDescriptionExistenceValidator_validate(r),
                    SigmahqDescriptionLengthValidator_validate(r),
                    SigmahqLevelExistenceValidator_validate(r),
                    SigmahqFalsepositivesCapitalValidator_validate(r),
                    SigmahqFalsepositivesBannedWordValidator_validate(r, cfg),
                    SigmahqFalsepositivesTypoWordValidator_validate(r, cfg),
                    SigmahqLinkInDescriptionValidator_validate(r, cfg),
                    SigmahqUnknownFieldValidator_validate(r) >>]

RunItems ==
    {Item(f_image, <<>>, <<s_Foo, s_foo>>),
     Item(f_UserName, <<SigmaAllModifier>>, <<s_Authority>>)}

\* status, date and level of a rule
RunHeaders ==
    {<<"None", "None", "None">>,
     <<"TEST", "None", "high">>,
     <<"DEPRECATED", "2024-01-01", "high">>}

RunRules ==
    {Rule(h[1], h[2], de, h[3], fps, refs, ca, ls, d) :
        h \in RunHeaders,
        de \in {None, d_link},
        fps \in {<<fp_NoneIdentified>>, <<fp_legitim, fp_unkownTab, <<>>>>},
        refs \in {<<>>, <<d_link>>},
        ca \in {<<>>, <<"custom">>},
        ls \in {ls_process_creation, ls_windows},
        d \in UNION {[1..k -> RunItems] : k \in 0..MaxItems}}

\* the instances are new, or hold the fields an earlier rule left on them
InitRun ==
    /\ config \in ConfigPool
    /\ rule \in RunRules
    /\ \/ cast_self = Unset
       \/ \E ls \in DOMAIN config.sigmahq_logsource_cast :
              cast_self = SelfOf(config, ls)
    /\ inv_self = cast_self
    /\ detection_item = NoItem
    /\ result = NoResult
    /\ was_missing = FALSE
    /\ runs = <<>>

RunAll ==
    /\ Len(runs) < MaxRuns
    /\ LET run == RunChecks(cast_self, inv_self, rule, config)
       IN  /\ runs' = Append(runs, run.out)
           /\ cast_self' = run.cast_self
           /\ inv_self' = run.inv_self
    /\ UNCHANGED <<config, rule, detection_item, result, was_missing>>

NextRun == RunAll

SpecRun == InitRun /\ [][NextRun]_vars

----------------------------------------------------------------------------
(* Properties of the full run (SpecRun) *)

\* C8: runs of the full set of checks in a row over the same rule and the
\* same catalog return the same issues in the same order, the validators
\* that keep catalog fields on the instance included.
C8_Idempotent ==
    \A i, j \in DOMAIN runs : runs[i] = runs[j]

\* two runs, on instances that held other fields before the first one, in
\* which the cast check and the typo check report issues
C8_Witness ==
    /\ Len(runs) >= 2
    /\ runs[1][2].issues # <<>>
    /\ runs[2][2].issues # <<>>
    /\ runs[2][15].issues # <<>>
    /\ rule.logsource = ls_process_creation

====
